---- MODULE Spec2Model ----
(***************************************************************************)
(* A model of ReconSouthAfrica (src/app.py): the process loop start(), the  *)
(* dispatch through run_menu_choice, the fetch wrapper make_request and the *)
(* action procedures.  Text is modelled by TLA+ strings, a raised Python   *)
(* exception by the name of its class ("None" when nothing was raised).     *)
(***************************************************************************)
EXTENDS Integers, Sequences, FiniteSets, TLC

(***************************************************************************)
(* Bounds of the model.                                                    *)
(***************************************************************************)
\* menu numbers -1 .. MaxChoiceTyped are typed at the menu prompt
MaxChoiceTyped == 24
\* up to MaxPad blanks are typed before and after some of the menu numbers
MaxPad == 1
\* a response body holds up to MaxElements elements (or JSON records)
MaxElements == 2
\* free-text answers over InputAlphabet have up to MaxInputLen characters
MaxInputLen == 1

(***************************************************************************)
(* Characters and strings.                                                 *)
(***************************************************************************)
UpperCase == "ABCDEFGHIJKLMNOPQRSTUVWXYZ"
LowerCase == "abcdefghijklmnopqrstuvwxyz"
Digits == "0123456789"

Char(s, i) == SubSeq(s, i, i)

IndexIn(c, s) == IF \E i \in 1..Len(s) : Char(s, i) = c
                 THEN CHOOSE i \in 1..Len(s) : Char(s, i) = c
                 ELSE 0

IsDigit(c) == IndexIn(c, Digits) > 0

IsAlnum(c) == IndexIn(c, Digits) > 0 \/ IndexIn(c, UpperCase) > 0 \/ IndexIn(c, LowerCase) > 0

\* a word character of the re module: [a-zA-Z0-9_]
IsWordChar(c) == IsAlnum(c) \/ c = "_"

\* re.IGNORECASE compares characters by their lower-case form
ToLower(c) == IF IndexIn(c, UpperCase) > 0 THEN Char(LowerCase, IndexIn(c, UpperCase)) ELSE c

Blanks(n) == SubSeq("          ", 1, n)

\* s occurs in line as a contiguous substring
Contains(line, s) == \E i \in 1..(Len(line) - Len(s) + 1) : SubSeq(line, i, i + Len(s) - 1) = s

(***************************************************************************)
(* str.strip() and int(): line 261.                                        *)
(***************************************************************************)
RECURSIVE LStrip(_)
LStrip(s) == IF Len(s) > 0 /\ Char(s, 1) = " " THEN LStrip(SubSeq(s, 2, Len(s))) ELSE s

RECURSIVE RStrip(_)
RStrip(s) == IF Len(s) > 0 /\ Char(s, Len(s)) = " " THEN RStrip(SubSeq(s, 1, Len(s) - 1)) ELSE s

Strip(s) == RStrip(LStrip(s))

\* the digits of an int literal: digits, with single underscores between digits only
WellFormedDigits(s) ==
    /\ Len(s) > 0
    /\ \A i \in 1..Len(s) : IsDigit(Char(s, i)) \/ Char(s, i) = "_"
    /\ IsDigit(Char(s, 1)) /\ IsDigit(Char(s, Len(s)))
    /\ \A i \in 1..(Len(s) - 1) : ~(Char(s, i) = "_" /\ Char(s, i + 1) = "_")

RECURSIVE DigitsValue(_, _)
DigitsValue(s, acc) ==
    IF s = "" THEN acc
    ELSE IF Char(s, 1) = "_" THEN DigitsValue(SubSeq(s, 2, Len(s)), acc)
    ELSE DigitsValue(SubSeq(s, 2, Len(s)), 10 * acc + (IndexIn(Char(s, 1), Digits) - 1))

\* int(text): [ok |-> FALSE] stands for the ValueError int() raises
PyInt(text) ==
    LET s == Strip(text)
        signed == Len(s) > 0 /\ Char(s, 1) \in {"-", "+"}
        body == IF signed THEN SubSeq(s, 2, Len(s)) ELSE s
    IN IF ~WellFormedDigits(body) THEN [ok |-> FALSE, val |-> 0]
       ELSE [ok |-> TRUE,
             val |-> IF signed /\ Char(s, 1) = "-" THEN 0 - DigitsValue(body, 0) ELSE DigitsValue(body, 0)]

(***************************************************************************)
(* Exception classes and the except clauses that catch them.               *)
(***************************************************************************)
Bases ==
    [c \in {"BaseException", "Exception", "SystemExit", "ValueError", "KeyError", "TypeError",
            "IndexError", "EOFError", "RuntimeError", "OSError", "FileNotFoundError",
            "RequestException", "HTTPError", "ConnectionError", "Timeout", "JSONDecodeError",
            "AddressNotFoundError", "InvalidDatabaseError"} |->
       CASE c = "BaseException" -> {}
         [] c \in {"Exception", "SystemExit"} -> {"BaseException"}
         [] c \in {"ValueError", "KeyError", "TypeError", "IndexError", "EOFError",
                   "RuntimeError", "OSError"} -> {"Exception"}
         [] c = "FileNotFoundError" -> {"OSError"}
         [] c = "RequestException" -> {"OSError"}
         [] c \in {"HTTPError", "ConnectionError", "Timeout"} -> {"RequestException"}
         [] c = "JSONDecodeError" -> {"RequestException", "ValueError"}
         [] c \in {"AddressNotFoundError", "InvalidDatabaseError"} -> {"RuntimeError"}]

RECURSIVE IsInstance(_, _)
IsInstance(exc, cls) ==
    /\ exc \in DOMAIN Bases
    /\ \/ exc = cls
       \/ \E b \in Bases[exc] : IsInstance(b, cls)

\* str(e) of a raised exception
ExcText(exc) ==
    CASE exc = "ConnectionError" -> "Connection refused"
      [] exc = "Timeout" -> "Read timed out"
      [] exc = "HTTPError" -> "Error for url"
      [] exc = "FileNotFoundError" -> "No such file or directory: 'GeoLite2-City.mmdb'"
      [] exc = "InvalidDatabaseError" -> "Error opening database file"
      [] exc = "AddressNotFoundError" -> "The address is not in the database."
      [] exc = "ValueError" -> "does not appear to be an IPv4 or IPv6 address"
      [] OTHER -> exc

(***************************************************************************)
(* What a call leaves behind: the lines it printed, the entries it logged, *)
(* the exception it raised, the prompts it issued, its fetch-wrapper calls *)
(* and the database readers it opened and closed.                          *)
(***************************************************************************)
Quiet == [out |-> <<>>, log |-> <<>>, raised |-> "None", asked |-> <<>>,
          requests |-> <<>>, opens |-> 0, closes |-> 0]

LogError(msg) == [level |-> "ERROR", message |-> msg]

\* input(prompt) when standard input has no line left
Eof(prompt) == [Quiet EXCEPT !.asked = << prompt >>, !.raised = "EOFError"]

(***************************************************************************)
(* HTTP: the outcome of requests.get and the fetch wrapper.                *)
(***************************************************************************)
NoBody == [elements |-> <<>>, json |-> [valid |-> FALSE, type |-> "object", hasRecords |-> FALSE, records |-> <<>>]]

\* the absent result
None == [status |-> 0, body |-> NoBody]

\* Response.raise_for_status(): HTTPError for 4xx and 5xx
RaiseForStatus(response) ==
    IF 400 <= response.status /\ response.status < 600 THEN "HTTPError" ELSE "None"

\* bool(response): Response.__bool__ is Response.ok; None is falsy
Truthy(response) == response # None /\ RaiseForStatus(response) = "None"

\* a fetch wrapper that prints its message but does not log it
make_request_unlogged(url, net) ==
    LET exc == IF net.error # "None" THEN net.error ELSE RaiseForStatus(net.response)
    IN IF exc = "None"
       THEN [ret |-> net.response, out |-> <<>>, log |-> <<>>, raised |-> "None"]
       ELSE IF IsInstance(exc, "RequestException")
       THEN [ret |-> None, out |-> << "Request failed: " \o ExcText(exc) >>, log |-> <<>>,
             raised |-> "None"]
       ELSE [ret |-> None, out |-> <<>>, log |-> <<>>, raised |-> exc]

make_request(url, net) ==
    LET exc == IF net.error # "None" THEN net.error ELSE RaiseForStatus(net.response)
    IN IF exc = "None"
       THEN [ret |-> net.response, out |-> <<>>, log |-> <<>>, raised |-> "None"]
       ELSE IF IsInstance(exc, "RequestException")
       THEN [ret |-> None,
             out |-> << "Request failed: " \o ExcText(exc) >>,
             log |-> << LogError("Request failed: " \o ExcText(exc)) >>,
             raised |-> "None"]
       ELSE [ret |-> None, out |-> <<>>, log |-> <<>>, raised |-> exc]

\* the record of one make_request call kept in an effect
Fetched(url, net, r) == [url |-> url, net |-> net, ret |-> r.ret, printed |-> Len(r.out), logged |-> Len(r.log)]

\* BeautifulSoup(html).find_all(tag, class_=cls), then .text of each
RECURSIVE FindAllText(_, _, _)
FindAllText(elements, tag, cls) ==
    IF elements = <<>> THEN <<>>
    ELSE LET e == Head(elements)
         IN (IF e.tag = tag /\ e.class = cls THEN << e.text >> ELSE <<>>)
            \o FindAllText(Tail(elements), tag, cls)

(***************************************************************************)
(* The network-backed action procedures.  env.typed holds the lines still  *)
(* to be read from standard input, env.net the outcome of requests.get.    *)
(***************************************************************************)
\* the body shared by the scraping procedures once the input is read and
\* make_request has returned r: on a truthy response the header line and the
\* text of every element found, otherwise the lines of the else branch
Scrape(prompt, url, net, r, header, tag, cls, failure) ==
    [Quiet EXCEPT
       !.asked = << prompt >>,
       !.requests = << Fetched(url, net, r) >>,
       !.log = r.log,
       !.raised = r.raised,
       !.out = r.out \o
           (IF r.raised # "None" THEN <<>>
            ELSE IF Truthy(r.ret)
            THEN << header >> \o FindAllText(r.ret.body.elements, tag, cls)
            ELSE failure)]

\* a domain lookup without the else branch of line 112
run_domain_lookup_silent(env) ==
    IF env.typed = <<>> THEN Eof("Enter the domain to lookup: ")
    ELSE LET domain == Head(env.typed)
             url == "https://www.za-example.com/domain-lookup/" \o domain
         IN Scrape("Enter the domain to lookup: ", url, env.net, make_request(url, env.net),
                   "Domain Information for " \o domain \o ":", "div", "domain-info",
                   <<>>)

run_domain_lookup(env) ==
    IF env.typed = <<>> THEN Eof("Enter the domain to lookup: ")
    ELSE LET domain == Head(env.typed)
             url == "https://www.za-example.com/domain-lookup/" \o domain
         IN Scrape("Enter the domain to lookup: ", url, env.net, make_request(url, env.net),
                   "Domain Information for " \o domain \o ":", "div", "domain-info",
                   << "Failed to retrieve data for " \o domain >>)

\* response.json() and data['records'] of lines 134 and 136
JsonRecords(body) ==
    IF ~body.json.valid THEN [raised |-> "JSONDecodeError", printed |-> FALSE, records |-> <<>>]
    ELSE IF body.json.type # "object" THEN [raised |-> "TypeError", printed |-> TRUE, records |-> <<>>]
    ELSE IF ~body.json.hasRecords THEN [raised |-> "KeyError", printed |-> TRUE, records |-> <<>>]
    ELSE [raised |-> "None", printed |-> TRUE, records |-> body.json.records]

\* lines 133-139 once the name is read and make_request has returned r
Records(name, url, net, r) ==
    LET data == JsonRecords(r.ret.body)
    IN [Quiet EXCEPT
          !.asked = << "Enter the name to search public records: " >>,
          !.requests = << Fetched(url, net, r) >>,
          !.log = r.log,
          !.raised = IF r.raised # "None" THEN r.raised
                     ELSE IF Truthy(r.ret) THEN data.raised ELSE "None",
          !.out = r.out \o
              (IF r.raised # "None" THEN <<>>
               ELSE IF Truthy(r.ret)
               THEN (IF data.printed THEN << "Public Records for " \o name \o ":" >> ELSE <<>>)
                    \o data.records
               ELSE << "Failed to retrieve public records for " \o name >>)]

run_public_records(env) ==
    IF env.typed = <<>> THEN Eof("Enter the name to search public records: ")
    ELSE LET name == Head(env.typed)
             url == "https://www.sa-publicrecords-example.com/search?name=" \o name
         IN Records(name, url, env.net, make_request(url, env.net))

run_reverse_image_search(env) ==
    IF env.typed = <<>> THEN Eof("Enter the image URL for reverse image search: ")
    ELSE LET image_url == Head(env.typed)
             url == "https://tineye.com/search?url=" \o image_url
         IN Scrape("Enter the image URL for reverse image search: ", url, env.net, make_request(url, env.net),
                   "Reverse Image Search Results for " \o image_url \o ":", "div", "result",
                   << "Failed to perform reverse image search for " \o image_url >>)

run_saps_wanted_missing(env) ==
    IF env.typed = <<>> THEN Eof("Enter the search term for SAPS wanted/missing persons: ")
    ELSE LET search_term == Head(env.typed)
             url == "https://www.saps.gov.za/crimestop/wanted/search.php?q=" \o search_term
         IN Scrape("Enter the search term for SAPS wanted/missing persons: ", url, env.net, make_request(url, env.net),
                   "SAPS Wanted/Missing Persons for " \o search_term \o ":", "div", "person-info",
                   << "Failed to retrieve SAPS wanted/missing persons for " \o search_term >>)

run_international_wanted_missing(env) ==
    IF env.typed = <<>> THEN Eof("Enter the search term for international wanted/missing persons: ")
    ELSE LET search_term == Head(env.typed)
             url == "https://www.interpol.int/en/How-we-work/Notices/View-Red-Notices?q=" \o search_term
         IN Scrape("Enter the search term for international wanted/missing persons: ", url, env.net, make_request(url, env.net),
                   "International Wanted/Missing Persons for " \o search_term \o ":", "div", "result",
                   << "Failed to retrieve international wanted/missing persons for " \o search_term >>)

run_social_network_search(search_type, env) ==
    IF env.typed = <<>> THEN Eof("Enter the " \o search_type \o " for social network search: ")
    ELSE LET query == Head(env.typed)
             url == "https://www.socialnetworksearch-example.com/search?" \o search_type \o "=" \o query
         IN Scrape("Enter the " \o search_type \o " for social network search: ", url, env.net,
                   make_request(url, env.net),
                   "Social Network Search Results for " \o search_type \o " " \o query \o ":",
                   "div", "result",
                   << "Failed to perform social network search for " \o search_type \o " " \o query >>)

run_google_dorks(env) ==
    IF env.typed = <<>> THEN Eof("Enter the Google Dorks query: ")
    ELSE LET search_query == Head(env.typed)
             url == "https://www.google.com/search?q=" \o search_query
         IN Scrape("Enter the Google Dorks query: ", url, env.net, make_request(url, env.net),
                   "Google Dorks Search Results for query: " \o search_query, "h3", "r",
                   << "Failed to perform Google Dorks search for query: " \o search_query >>)

(***************************************************************************)
(* IP geolocation.  env.geo.open is the outcome of opening the database    *)
(* ("None" or the exception raised), env.geo.lookup that of reader.city.   *)
(***************************************************************************)
\* a reader opened without with and closed at the end of the block only
ReaderClosedAtEnd(openExc, blockExc) ==
    IF openExc # "None" THEN [opens |-> 0, closes |-> 0, raised |-> openExc]
    ELSE [opens |-> 1, closes |-> IF blockExc = "None" THEN 1 ELSE 0, raised |-> blockExc]

\* the with statement of lines 118-124: the reader, once opened, is closed
\* when the block is left, whether normally or by an exception
WithReader(openExc, blockExc) ==
    IF openExc # "None" THEN [opens |-> 0, closes |-> 0, raised |-> openExc]
    ELSE [opens |-> 1, closes |-> 1, raised |-> blockExc]

run_ip_geolocation(env) ==
    IF env.typed = <<>> THEN Eof("Enter the IP address to geolocate: ")
    ELSE LET ip_address == Head(env.typed)
             w == WithReader(env.geo.open, env.geo.lookup)
             base == [Quiet EXCEPT !.asked = << "Enter the IP address to geolocate: " >>,
                                   !.opens = w.opens, !.closes = w.closes]
             failure == "Failed to geolocate IP address " \o ip_address \o ": " \o ExcText(w.raised)
         IN IF w.raised = "None"
            THEN [base EXCEPT !.out = << "Geolocation for IP " \o ip_address \o ":",
                                         "City: " \o env.geo.city,
                                         "Country: " \o env.geo.country,
                                         "Latitude: " \o env.geo.latitude,
                                         "Longitude: " \o env.geo.longitude >>]
            ELSE IF IsInstance(w.raised, "Exception")
            THEN [base EXCEPT !.log = << LogError(failure) >>, !.out = << failure >>]
            ELSE [base EXCEPT !.raised = w.raised]

(***************************************************************************)
(* Real-name pattern search: re.escape, re.compile with IGNORECASE and     *)
(* findall over the sample sentence.                                       *)
(***************************************************************************)
sample_text == "Example text with real name John Doe and other content."

\* the characters re.escape puts a backslash before
IsSpecial(c) == c \in {"(", ")", "[", "]", "{", "}", "?", "*", "+", "-", "|", "^", "$",
                       "\\", ".", "&", "~", "#", " "}

RECURSIVE ReEscape(_)
ReEscape(s) ==
    IF s = "" THEN ""
    ELSE (IF IsSpecial(Char(s, 1)) THEN "\\" \o Char(s, 1) ELSE Char(s, 1))
         \o ReEscape(SubSeq(s, 2, Len(s)))

\* the compiled pattern as a sequence of items: the assertion \b, an escaped or
\* plain character standing for itself, a dot standing for any character
RECURSIVE Compile(_)
Compile(p) ==
    IF p = "" THEN <<>>
    ELSE IF Char(p, 1) = "\\" /\ Len(p) >= 2
    THEN << IF Char(p, 2) = "b" THEN [kind |-> "boundary", c |-> ""]
            ELSE [kind |-> "literal", c |-> Char(p, 2)] >>
         \o Compile(SubSeq(p, 3, Len(p)))
    ELSE << IF Char(p, 1) = "." THEN [kind |-> "any", c |-> ""]
            ELSE [kind |-> "literal", c |-> Char(p, 1)] >>
         \o Compile(SubSeq(p, 2, Len(p)))

\* \b holds before position pos of text: exactly one neighbour is a word character
AtBoundary(text, pos) ==
    LET before == pos > 1 /\ IsWordChar(Char(text, pos - 1))
        after == pos <= Len(text) /\ IsWordChar(Char(text, pos))
    IN before # after

\* comparison without re.IGNORECASE
SameCharExact(a, b) == a = b

\* letters compare equal regardless of case under re.IGNORECASE
SameChar(a, b) == ToLower(a) = ToLower(b)

\* the position after a match of items that starts at pos, 0 when there is none
RECURSIVE MatchAt(_, _, _)
MatchAt(items, text, pos) ==
    IF items = <<>> THEN pos
    ELSE LET it == Head(items)
         IN IF it.kind = "boundary"
            THEN (IF AtBoundary(text, pos) THEN MatchAt(Tail(items), text, pos) ELSE 0)
            ELSE IF pos > Len(text) THEN 0
            ELSE IF it.kind = "any" \/ SameChar(it.c, Char(text, pos))
            THEN MatchAt(Tail(items), text, pos + 1)
            ELSE 0

\* len(pattern.findall(text)): non-overlapping matches, scanning left to right
RECURSIVE FindAllCount(_, _, _)
FindAllCount(items, text, pos) ==
    IF pos > Len(text) + 1 THEN 0
    ELSE LET e == MatchAt(items, text, pos)
         IN IF e = 0 THEN FindAllCount(items, text, pos + 1)
            ELSE 1 + FindAllCount(items, text, IF e = pos THEN pos + 1 ELSE e)

run_real_name_search_pattern(env) ==
    IF env.typed = <<>> THEN Eof("Enter the real name for pattern search: ")
    ELSE LET name == Head(env.typed)
             pattern == Compile("\\b" \o ReEscape(name) \o "\\b")
             matches == FindAllCount(pattern, sample_text, 1)
         IN [Quiet EXCEPT
               !.asked = << "Enter the real name for pattern search: " >>,
               !.out = << "Searching for patterns matching real name: " \o name,
                          "Found " \o ToString(matches) \o " matches for name " \o name
                              \o " in sample text." >>]

(***************************************************************************)
(* The stub actions.                                                       *)
(***************************************************************************)
run_username_search(env) ==
    IF env.typed = <<>> THEN Eof("Enter the username for search: ")
    ELSE LET username == Head(env.typed)
         IN [Quiet EXCEPT
               !.asked = << "Enter the username for search: " >>,
               !.out = << "Searching for information related to username: " \o username,
                          "Username " \o username \o " found on various platforms." >>]

run_email_address_search(env) ==
    IF env.typed = <<>> THEN Eof("Enter the email address for search: ")
    ELSE LET email == Head(env.typed)
         IN [Quiet EXCEPT
               !.asked = << "Enter the email address for search: " >>,
               !.out = << "Searching for information related to email address: " \o email,
                          "Information related to " \o email \o " found." >>]

run_compromised_databases_search(env) ==
    IF env.typed = <<>> THEN Eof("Enter the query for compromised databases search: ")
    ELSE LET query == Head(env.typed)
         IN [Quiet EXCEPT
               !.asked = << "Enter the query for compromised databases search: " >>,
               !.out = << "Searching for compromised databases related to: " \o query,
                          "Compromised databases related to " \o query \o " found." >>]

run_phone_number_search(env) ==
    IF env.typed = <<>> THEN Eof("Enter the phone number for search: ")
    ELSE LET phone_number == Head(env.typed)
         IN [Quiet EXCEPT
               !.asked = << "Enter the phone number for search: " >>,
               !.out = << "Searching for information related to phone number: " \o phone_number,
                          "Information related to phone number " \o phone_number \o " found." >>]

\* a Whois stub whose second line does not interpolate the input
run_whois_fixed(env) ==
    IF env.typed = <<>> THEN Eof("Enter the domain for Whois lookup: ")
    ELSE LET domain == Head(env.typed)
         IN [Quiet EXCEPT
               !.asked = << "Enter the domain for Whois lookup: " >>,
               !.out = << "Performing Whois lookup for domain: " \o domain,
                          "Whois information for {domain}." >>]

run_whois(env) ==
    IF env.typed = <<>> THEN Eof("Enter the domain for Whois lookup: ")
    ELSE LET domain == Head(env.typed)
         IN [Quiet EXCEPT
               !.asked = << "Enter the domain for Whois lookup: " >>,
               !.out = << "Performing Whois lookup for domain: " \o domain,
                          "Whois information for " \o domain \o "." >>]

run_reverse_whois(env) ==
    IF env.typed = <<>> THEN Eof("Enter the name for Reverse Whois lookup: ")
    ELSE LET name == Head(env.typed)
         IN [Quiet EXCEPT
               !.asked = << "Enter the name for Reverse Whois lookup: " >>,
               !.out = << "Performing Reverse Whois lookup for name: " \o name,
                          "Reverse Whois information for " \o name \o "." >>]

run_passive_dns(env) ==
    IF env.typed = <<>> THEN Eof("Enter the query for Passive DNS lookup: ")
    ELSE LET query == Head(env.typed)
         IN [Quiet EXCEPT
               !.asked = << "Enter the query for Passive DNS lookup: " >>,
               !.out = << "Performing Passive DNS lookup for query: " \o query,
                          "Passive DNS information for " \o query \o "." >>]

(***************************************************************************)
(* Geolocation Tools, Help, Settings, Exit.                                *)
(***************************************************************************)
run_geolocation_tools(env) ==
    LET header == << "Geolocation Tools:", "1. IP-based Geolocation", "2. Location Search" >>
        base == [Quiet EXCEPT !.out = header, !.asked = << "Enter your choice (1-2): " >>]
    IN IF env.typed = <<>> THEN [base EXCEPT !.raised = "EOFError"]
       ELSE LET choice == Head(env.typed)
                rest == [env EXCEPT !.typed = Tail(env.typed)]
            IN IF choice = "1"
               THEN LET g == run_ip_geolocation(rest)
                    IN [g EXCEPT !.out = header \o g.out, !.asked = base.asked \o g.asked]
               ELSE IF choice = "2"
               THEN IF rest.typed = <<>>
                    THEN [base EXCEPT !.asked = base.asked \o << "Enter the location to search: " >>,
                                      !.raised = "EOFError"]
                    ELSE LET location == Head(rest.typed)
                         IN [base EXCEPT
                               !.asked = base.asked \o << "Enter the location to search: " >>,
                               !.out = header \o << "Performing location search for: " \o location,
                                                    "Location information for " \o location \o "." >>]
               ELSE base

print_help(env) ==
    [Quiet EXCEPT !.out = << "Help:", "Select an option from the menu for details on each action." >>]

print_settings(env) ==
    [Quiet EXCEPT !.out = << "Settings functionality not implemented yet." >>]

\* exit() raises SystemExit
exit_program(env) ==
    [Quiet EXCEPT !.out = << "Exiting..." >>, !.raised = "SystemExit"]

(***************************************************************************)
(* The menu and the dispatch.                                              *)
(***************************************************************************)
\* the (label, procedure) table of print_menu
menu_options ==
    << [label |-> "Domain Lookup", procedure |-> "run_domain_lookup"],
       [label |-> "IP Geolocation", procedure |-> "run_ip_geolocation"],
       [label |-> "Public Records Search", procedure |-> "run_public_records"],
       [label |-> "Reverse Image Search (TinEye)", procedure |-> "run_reverse_image_search"],
       [label |-> "SAPS Wanted/Missing Persons", procedure |-> "run_saps_wanted_missing"],
       [label |-> "International Wanted/Missing Persons", procedure |-> "run_international_wanted_missing"],
       [label |-> "Social Network Search by Email", procedure |-> "run_social_network_search('email')"],
       [label |-> "Social Network Search by IP", procedure |-> "run_social_network_search('ip')"],
       [label |-> "Social Network Search by VIN", procedure |-> "run_social_network_search('vin')"],
       [label |-> "Real Name Search Pattern", procedure |-> "run_real_name_search_pattern"],
       [label |-> "Google Dorks", procedure |-> "run_google_dorks"],
       [label |-> "Username Search", procedure |-> "run_username_search"],
       [label |-> "Email Address Search", procedure |-> "run_email_address_search"],
       [label |-> "Compromised Databases Search", procedure |-> "run_compromised_databases_search"],
       [label |-> "Phone Number Search", procedure |-> "run_phone_number_search"],
       [label |-> "Whois Lookup", procedure |-> "run_whois"],
       [label |-> "Reverse Whois Lookup", procedure |-> "run_reverse_whois"],
       [label |-> "Passive DNS Lookup", procedure |-> "run_passive_dns"],
       [label |-> "Geolocation Tools", procedure |-> "run_geolocation_tools"],
       [label |-> "Help", procedure |-> "print_help"],
       [label |-> "Settings", procedure |-> "print_settings"],
       [label |-> "Exit", procedure |-> "exit_program"] >>

\* the lines print_menu prints
print_menu ==
    << "Choose an action:" >>
    \o [index \in 1..Len(menu_options) |-> ToString(index) \o ". " \o menu_options[index].label]

\* the procedure list with Whois and Reverse Whois exchanged
run_menu_choice_options_swapped ==
    << "run_domain_lookup",
       "run_ip_geolocation",
       "run_public_records",
       "run_reverse_image_search",
       "run_saps_wanted_missing",
       "run_international_wanted_missing",
       "run_social_network_search('email')",
       "run_social_network_search('ip')",
       "run_social_network_search('vin')",
       "run_real_name_search_pattern",
       "run_google_dorks",
       "run_username_search",
       "run_email_address_search",
       "run_compromised_databases_search",
       "run_phone_number_search",
       "run_reverse_whois",
       "run_whois",
       "run_passive_dns",
       "run_geolocation_tools" >>

\* the procedure list of run_menu_choice
run_menu_choice_options ==
    << "run_domain_lookup",
       "run_ip_geolocation",
       "run_public_records",
       "run_reverse_image_search",
       "run_saps_wanted_missing",
       "run_international_wanted_missing",
       "run_social_network_search('email')",
       "run_social_network_search('ip')",
       "run_social_network_search('vin')",
       "run_real_name_search_pattern",
       "run_google_dorks",
       "run_username_search",
       "run_email_address_search",
       "run_compromised_databases_search",
       "run_phone_number_search",
       "run_whois",
       "run_reverse_whois",
       "run_passive_dns",
       "run_geolocation_tools" >>

\* calling a bound method or lambda
Call(procedure, env) ==
    CASE procedure = "run_domain_lookup" -> run_domain_lookup(env)
      [] procedure = "run_ip_geolocation" -> run_ip_geolocation(env)
      [] procedure = "run_public_records" -> run_public_records(env)
      [] procedure = "run_reverse_image_search" -> run_reverse_image_search(env)
      [] procedure = "run_saps_wanted_missing" -> run_saps_wanted_missing(env)
      [] procedure = "run_international_wanted_missing" -> run_international_wanted_missing(env)
      [] procedure = "run_social_network_search('email')" -> run_social_network_search("email", env)
      [] procedure = "run_social_network_search('ip')" -> run_social_network_search("ip", env)
      [] procedure = "run_social_network_search('vin')" -> run_social_network_search("vin", env)
      [] procedure = "run_real_name_search_pattern" -> run_real_name_search_pattern(env)
      [] procedure = "run_google_dorks" -> run_google_dorks(env)
      [] procedure = "run_username_search" -> run_username_search(env)
      [] procedure = "run_email_address_search" -> run_email_address_search(env)
      [] procedure = "run_compromised_databases_search" -> run_compromised_databases_search(env)
      [] procedure = "run_phone_number_search" -> run_phone_number_search(env)
      [] procedure = "run_whois" -> run_whois(env)
      [] procedure = "run_reverse_whois" -> run_reverse_whois(env)
      [] procedure = "run_passive_dns" -> run_passive_dns(env)
      [] procedure = "run_geolocation_tools" -> run_geolocation_tools(env)
      [] procedure = "print_help" -> print_help(env)
      [] procedure = "print_settings" -> print_settings(env)
      [] procedure = "exit_program" -> exit_program(env)

\* list[i] of Python: 0-based, negative i counts from the end, IndexError outside
PyIndex(list, i) ==
    IF 0 <= i /\ i < Len(list) THEN [ok |-> TRUE, item |-> list[i + 1]]
    ELSE IF 0 - Len(list) <= i /\ i < 0 THEN [ok |-> TRUE, item |-> list[Len(list) + i + 1]]
    ELSE [ok |-> FALSE, item |-> ""]

run_menu_choice(choice, env) ==
    LET entry == PyIndex(run_menu_choice_options, choice - 1)
    IN IF entry.ok
       THEN [invoked |-> << entry.item >>, effect |-> Call(entry.item, env)]
       ELSE [invoked |-> <<>>, effect |-> [Quiet EXCEPT !.raised = "IndexError"]]

\* the range test without its lower bound
InRangeNoLowerBound(choice) == choice <= 22

\* the range test of line 262
InRange(choice) == 1 <= choice /\ choice <= 22

\* a bare except clause in place of except ValueError
CaughtAnything(exc) == IsInstance(exc, "BaseException")

\* the except clause of line 273
Caught(exc) == IsInstance(exc, "ValueError")

\* the try block of lines 261-272 once int() has produced choice
try_block(choice, env) ==
    IF ~choice.ok THEN [invoked |-> <<>>, effect |-> [Quiet EXCEPT !.raised = "ValueError"]]
    ELSE IF InRange(choice.val)
    THEN (IF choice.val = 20 THEN [invoked |-> << "print_help" >>, effect |-> print_help(env)]
          ELSE IF choice.val = 21
          THEN [invoked |-> << "print_settings" >>, effect |-> print_settings(env)]
          ELSE IF choice.val = 22
          THEN [invoked |-> << "exit_program" >>, effect |-> exit_program(env)]
          ELSE run_menu_choice(choice.val, env))
    ELSE [invoked |-> <<>>,
          effect |-> [Quiet EXCEPT
                        !.out = << "Invalid choice. Please enter a number between 1 and 22." >>]]

\* the except clause of lines 273-274 applied to what the try block did
except_clause(choice, tried) ==
    [choice |-> choice,
     invoked |-> tried.invoked,
     effect |-> IF tried.effect.raised # "None" /\ Caught(tried.effect.raised)
                THEN [tried.effect EXCEPT
                        !.out = tried.effect.out \o << "Invalid input. Please enter a number." >>,
                        !.raised = "None"]
                ELSE tried.effect]

\* the try statement of lines 260-274 on an already converted choice
try_statement(choice, env) == except_clause(choice, try_block(choice, env))

\* one pass through the body of the while loop after print_menu: lines 260-274
start_body(text, env) == try_statement(PyInt(text), env)

(***************************************************************************)
(* The environment: what is typed, what the network and the database do.   *)
(***************************************************************************)
RECURSIVE Words(_, _)
Words(alphabet, n) ==
    IF n = 0 THEN {""}
    ELSE LET shorter == Words(alphabet, n - 1)
         IN shorter \cup {w \o c : w \in shorter, c \in alphabet}

RECURSIVE SeqsUpTo(_, _)
SeqsUpTo(S, n) ==
    IF n = 0 THEN {<<>>}
    ELSE LET shorter == SeqsUpTo(S, n - 1)
         IN shorter \cup {Append(q, x) : q \in shorter, x \in S}

InputAlphabet == {"e", " ", "."}

\* the free-text answers typed at the prompts of the action procedures
TextInputs ==
    {"alice", "John Doe", "john doe", "JOHN DOE", "Jane", "John", "Joh", "ohn Doe",
     "name John", "content.", "J.hn Doe", "8.8.8.8"}
    \cup Words(InputAlphabet, MaxInputLen)

\* the lines typed at the menu prompt
MenuNumbers ==
    {ToString(n) : n \in (0 - 1)..MaxChoiceTyped}
    \cup {Blanks(l) \o ToString(n) \o Blanks(r) : n \in {0, 3, 12, 22, 23}, l \in 0..MaxPad, r \in 0..MaxPad}
    \cup {"+5", "007", "1_0", "2_2"}

MenuNonNumbers == {"", " ", "x", "1x", "1 2", "-", "2.0", "_1", "1__0", "1_", "+-1", "one"}

MenuTexts == MenuNumbers \cup MenuNonNumbers

Selects(text, choices) == PyInt(text).ok /\ PyInt(text).val \in choices

ElementKinds ==
    { [tag |-> "div", class |-> "result", text |-> "result text"],
      [tag |-> "div", class |-> "domain-info", text |-> "registrar: example"],
      [tag |-> "div", class |-> "person-info", text |-> "person of interest"],
      [tag |-> "h3", class |-> "r", text |-> "a heading"] }

HtmlBodies == {[elements |-> es, json |-> NoBody.json] : es \in SeqsUpTo(ElementKinds, MaxElements)}

JsonBodies ==
    {[elements |-> <<>>, json |-> j] :
        j \in {[valid |-> TRUE, type |-> "object", hasRecords |-> FALSE, records |-> <<>>],
               [valid |-> TRUE, type |-> "array", hasRecords |-> FALSE, records |-> <<>>]}
              \cup {[valid |-> TRUE, type |-> "object", hasRecords |-> TRUE, records |-> rs] :
                       rs \in SeqsUpTo({"record A", "record B"}, MaxElements)}}

\* a response that carries no body: 1xx, 304, and the error statuses
BodilessStatuses == {101, 304, 404, 503}

NetOutcomes ==
    {[error |-> e, response |-> None] : e \in {"ConnectionError", "Timeout"}}
    \cup {[error |-> "None", response |-> [status |-> st, body |-> NoBody]] : st \in BodilessStatuses}
    \cup {[error |-> "None", response |-> [status |-> 200, body |-> b]] : b \in HtmlBodies \cup JsonBodies}

NoGeo == [open |-> "None", lookup |-> "None", city |-> "None", country |-> "None",
          latitude |-> "None", longitude |-> "None"]

GeoOutcomes ==
    {[NoGeo EXCEPT !.open = e] : e \in {"FileNotFoundError", "InvalidDatabaseError"}}
    \cup {[NoGeo EXCEPT !.lookup = e] : e \in {"AddressNotFoundError", "ValueError", "InvalidDatabaseError"}}
    \cup {[NoGeo EXCEPT !.city = c, !.country = "South Africa", !.latitude = "-33.9258",
                        !.longitude = "18.4232"] : c \in {"Cape Town", "None"}}

\* nothing typed after the menu choice, network and database unused; the
\* actions below give every pass a typed line for each prompt it will issue,
\* so standard input never ends under a prompt
Idle == [typed |-> <<>>, net |-> [error |-> "None", response |-> None], geo |-> NoGeo]

(***************************************************************************)
(* The process loop as a state machine.                                    *)
(***************************************************************************)
VARIABLES
    pc,        \* "print_menu": at the top of the while loop; "prompt": the menu is
               \* printed and the choice awaited; "terminated": start() was left
    escaped,   \* the exception that left start(), "None" while the loop runs
    choice,    \* int() of the line typed at the menu prompt in this pass
    env,       \* the environment met in this pass
    console,   \* the lines printed in this pass, the menu included
    logged,    \* the entries appended to reconsouthafrica.log in this pass
    invoked,   \* the procedures the loop invoked in this pass
    asked,     \* the prompts issued after the menu prompt in this pass
    requests,  \* the make_request calls of this pass
    readers    \* database readers opened and closed in this pass

vars == << pc, escaped, choice, env, console, logged, invoked, asked, requests, readers >>

NoChoice == [ok |-> FALSE, val |-> 0]

Init ==
    /\ pc = "print_menu"
    /\ escaped = "None"
    /\ choice = NoChoice
    /\ env = Idle
    /\ console = <<>>
    /\ logged = <<>>
    /\ invoked = <<>>
    /\ asked = <<>>
    /\ requests = <<>>
    /\ readers = [opens |-> 0, closes |-> 0]

\* line 259: the menu is printed at the top of every pass
PrintMenu ==
    /\ pc = "print_menu"
    /\ pc' = "prompt"
    /\ console' = print_menu
    /\ choice' = NoChoice
    /\ env' = Idle
    /\ logged' = <<>>
    /\ invoked' = <<>>
    /\ asked' = <<>>
    /\ requests' = <<>>
    /\ readers' = [opens |-> 0, closes |-> 0]
    /\ UNCHANGED escaped

\* the state after a pass whose outcome is r
Outcome(e, r) ==
    /\ choice' = r.choice
    /\ env' = e
    /\ console' = console \o r.effect.out
    /\ logged' = logged \o r.effect.log
    /\ invoked' = invoked \o r.invoked
    /\ asked' = asked \o r.effect.asked
    /\ requests' = requests \o r.effect.requests
    /\ readers' = [opens |-> readers.opens + r.effect.opens,
                   closes |-> readers.closes + r.effect.closes]
    /\ escaped' = r.effect.raised
    /\ pc' = IF r.effect.raised = "None" THEN "print_menu" ELSE "terminated"

\* lines 260-274 on the line text typed at the menu prompt, in environment e
Handle(text, e) ==
    /\ pc = "prompt"
    /\ Outcome(e, start_body(text, e))

\* the menu lines by what start() makes of them
NonNumberTexts == {text \in MenuTexts : ~PyInt(text).ok}
OutOfRangeTexts == {text \in MenuTexts : PyInt(text).ok /\ PyInt(text).val \notin 1..22}
HelpTexts == {text \in MenuTexts : Selects(text, {20})}
SettingsTexts == {text \in MenuTexts : Selects(text, {21})}
ExitTexts == {text \in MenuTexts : Selects(text, {22})}
NetworkActionTexts == {text \in MenuTexts : Selects(text, {1, 3, 4, 5, 6, 7, 8, 9, 11})}
IpGeolocationTexts == {text \in MenuTexts : Selects(text, {2})}
RealNameSearchTexts == {text \in MenuTexts : Selects(text, {10})}
StubActionTexts == {text \in MenuTexts : Selects(text, 12..18)}
GeolocationToolsTexts == {text \in MenuTexts : Selects(text, {19})}

EnterNonNumber ==
    /\ pc = "prompt"
    /\ \E text \in NonNumberTexts : Handle(text, Idle)

EnterOutOfRange ==
    /\ pc = "prompt"
    /\ \E text \in OutOfRangeTexts : Handle(text, Idle)

ChooseHelp ==
    /\ pc = "prompt"
    /\ \E text \in HelpTexts : Handle(text, Idle)

ChooseSettings ==
    /\ pc = "prompt"
    /\ \E text \in SettingsTexts : Handle(text, Idle)

ChooseExit ==
    /\ pc = "prompt"
    /\ \E text \in ExitTexts : Handle(text, Idle)

ChooseNetworkAction ==
    /\ pc = "prompt"
    /\ \E text \in NetworkActionTexts, answer \in TextInputs, net \in NetOutcomes :
          Handle(text, [Idle EXCEPT !.typed = << answer >>, !.net = net])

ChooseIpGeolocation ==
    /\ pc = "prompt"
    /\ \E text \in IpGeolocationTexts, answer \in TextInputs, geo \in GeoOutcomes :
          Handle(text, [Idle EXCEPT !.typed = << answer >>, !.geo = geo])

ChooseRealNameSearch ==
    /\ pc = "prompt"
    /\ \E text \in RealNameSearchTexts, answer \in TextInputs :
          Handle(text, [Idle EXCEPT !.typed = << answer >>])

ChooseStubAction ==
    /\ pc = "prompt"
    /\ \E text \in StubActionTexts, answer \in TextInputs :
          Handle(text, [Idle EXCEPT !.typed = << answer >>])

ChooseGeolocationTools ==
    /\ pc = "prompt"
    /\ \E text \in GeolocationToolsTexts, sub \in {"1", "2", "3", "", " 1"} :
          \/ /\ sub = "1"
             /\ \E answer \in TextInputs, geo \in GeoOutcomes :
                   Handle(text, [Idle EXCEPT !.typed = << sub, answer >>, !.geo = geo])
          \/ /\ sub = "2"
             /\ \E answer \in TextInputs : Handle(text, [Idle EXCEPT !.typed = << sub, answer >>])
          \/ /\ sub \notin {"1", "2"}
             /\ Handle(text, [Idle EXCEPT !.typed = << sub >>])

Next ==
    \/ PrintMenu
    \/ EnterNonNumber
    \/ EnterOutOfRange
    \/ ChooseHelp
    \/ ChooseSettings
    \/ ChooseExit
    \/ ChooseNetworkAction
    \/ ChooseIpGeolocation
    \/ ChooseRealNameSearch
    \/ ChooseStubAction
    \/ ChooseGeolocationTools

Spec == Init /\ [][Next]_vars

(***************************************************************************)
(* Observations used by the properties.                                    *)
(***************************************************************************)
\* a menu line was handled in this pass
Handled == pc \in {"print_menu", "terminated"} /\ Len(console) >= Len(print_menu)

\* the lines printed after the menu in this pass
Output == SubSeq(console, Len(print_menu) + 1, Len(console))

StartsWith(line, prefix) == SubSeq(line, 1, Len(prefix)) = prefix

InvalidInputMessage == "Invalid input. Please enter a number."

InvalidChoiceMessage == "Invalid choice. Please enter a number between 1 and 22."

Selected(choices) == Handled /\ choice.ok /\ choice.val \in choices

\* the fetch wrapper returned the absent result in this pass
FetchFailed == Handled /\ requests # <<>> /\ requests[1].ret = None

\* run_ip_geolocation ran in this pass, directly or through Geolocation Tools
Geolocated == Selected({2}) \/ (Selected({19}) /\ env.typed # <<>> /\ Head(env.typed) = "1")

GeoError == IF env.geo.open # "None" THEN env.geo.open ELSE env.geo.lookup

\* the lines run_ip_geolocation printed
GeoOutput == IF Selected({19}) THEN SubSeq(Output, 4, Len(Output)) ELSE Output

\* occurrences of name in text, compared without regard to case, that are
\* not preceded and not followed by a word character
WholeWordOccurrences(name, text) ==
    Cardinality({i \in 1..(Len(text) - Len(name) + 1) :
        /\ \A k \in 1..Len(name) : ToLower(Char(text, i + k - 1)) = ToLower(Char(name, k))
        /\ (i = 1 \/ ~IsWordChar(Char(text, i - 1)))
        /\ (i + Len(name) > Len(text) \/ ~IsWordChar(Char(text, i + Len(name))))})

FoundLine(n, name) == "Found " \o ToString(n) \o " matches for name " \o name \o " in sample text."

WordEnded(name) == Len(name) > 0 /\ IsWordChar(Char(name, 1)) /\ IsWordChar(Char(name, Len(name)))

(***************************************************************************)
(* Properties.                                                             *)
(***************************************************************************)
\* C1: every selection 1..21, whatever the bound procedure meets, returns
\* control to the loop; start() is left only through Exit and no failure
\* propagates out of it.
C1_OnlyExitTerminates ==
    /\ Selected(1..21) => pc = "print_menu" /\ escaped = "None"
    /\ pc = "terminated" => escaped = "SystemExit" /\ choice = [ok |-> TRUE, val |-> 22]

\* C2: a step that handles the Exit selection prints the farewell line and
\* leaves start() with SystemExit, uncaught by the loop's handler; and once
\* start() is left nothing is printed, prompted or invoked any more.
C2_ExitTerminates ==
    [][/\ (pc = "prompt" /\ choice' = [ok |-> TRUE, val |-> 22]) =>
            /\ pc' = "terminated"
            /\ escaped' = "SystemExit"
            /\ console' = console \o << "Exiting..." >>
            /\ invoked' = << "exit_program" >>
       /\ pc = "terminated" => UNCHANGED vars]_vars

C2_Witness ==
    /\ pc = "terminated"
    /\ escaped = "SystemExit"
    /\ choice = [ok |-> TRUE, val |-> 22]
    /\ console = print_menu \o << "Exiting..." >>

\* C3: a menu line that is an integer outside 1..22 gets the invalid-choice
\* message, one that is no integer gets the invalid-input message; nothing
\* is invoked, asked, fetched or logged, and the loop is back at its top,
\* where it prints the menu and prompts.
C3_InvalidMenuInput ==
    (Handled /\ (~choice.ok \/ choice.val \notin 1..22)) =>
        /\ Output = << IF choice.ok THEN InvalidChoiceMessage ELSE InvalidInputMessage >>
        /\ invoked = <<>>
        /\ asked = <<>>
        /\ requests = <<>>
        /\ logged = <<>>
        /\ readers.opens = 0
        /\ pc = "print_menu"
        /\ escaped = "None"

C3_Witness ==
    /\ Handled
    /\ choice = [ok |-> TRUE, val |-> 0]
    /\ Output = << InvalidChoiceMessage >>
    /\ pc = "print_menu"

C5_NoFurtherOutput ==
    FetchFailed => /\ Output = << "Request failed: " \o ExcText(IF requests[1].net.error # "None"
                                                                   THEN requests[1].net.error
                                                                   ELSE "HTTPError") >>
                   /\ pc = "print_menu"

\* C5 amended: after a failed fetch the action prints the one line of the
\* fetch wrapper and then exactly one further line, its own "Failed to ..."
\* message naming the input, and returns to the loop.
C5_WrapperLineThenFailureLine ==
    FetchFailed =>
        /\ Len(Output) = 2
        /\ Output[1] = "Request failed: " \o ExcText(IF requests[1].net.error # "None"
                                                      THEN requests[1].net.error
                                                      ELSE "HTTPError")
        /\ StartsWith(Output[2], "Failed to ")
        /\ Contains(Output[2], Head(env.typed))
        /\ Len(logged) = 1
        /\ pc = "print_menu"
        /\ escaped = "None"

C5_Witness ==
    /\ FetchFailed
    /\ choice.val = 1
    /\ env.typed = << "alice" >>
    /\ env.net.error = "ConnectionError"
    /\ Output = << "Request failed: Connection refused", "Failed to retrieve data for alice" >>

\* C6: a stub action prompts once and prints exactly two lines, both of
\* which contain the input; it fetches nothing, opens no database, logs
\* nothing and returns to the loop.
C6_StubFrame ==
    Selected(12..18) =>
        /\ Len(asked) = 1
        /\ Len(env.typed) = 1
        /\ Len(Output) = 2
        /\ Contains(Output[1], Head(env.typed))
        /\ Contains(Output[2], Head(env.typed))
        /\ Len(Output[1]) > Len(Head(env.typed))
        /\ Len(Output[2]) > Len(Head(env.typed))
        /\ requests = <<>>
        /\ readers = [opens |-> 0, closes |-> 0]
        /\ logged = <<>>
        /\ pc = "print_menu"
        /\ escaped = "None"

C6_Witness ==
    /\ Selected({12})
    /\ env.typed = << "alice" >>
    /\ Output = << "Searching for information related to username: alice",
                   "Username alice found on various platforms." >>
    /\ requests = <<>>

\* C7: whenever the geolocation lookup fails (database missing or malformed,
\* address not found or not valid) it logs one error entry, prints one
\* message and returns normally; and a reader that was opened has been
\* closed when the procedure returns, on success and on failure alike.
C7_GeolocationContained ==
    Geolocated =>
        /\ pc = "print_menu"
        /\ escaped = "None"
        /\ readers.opens = (IF env.geo.open = "None" THEN 1 ELSE 0)
        /\ readers.closes = readers.opens
        /\ IF GeoError # "None"
           THEN /\ Len(logged) = 1
                /\ logged[1].level = "ERROR"
                /\ Len(GeoOutput) = 1
                /\ StartsWith(GeoOutput[1], "Failed to geolocate IP address ")
                /\ logged[1].message = GeoOutput[1]
           ELSE /\ logged = <<>>
                /\ Len(GeoOutput) = 5

C7_Witness ==
    /\ Selected({2})
    /\ env.geo.open = "None"
    /\ env.geo.lookup = "AddressNotFoundError"
    /\ readers = [opens |-> 1, closes |-> 1]
    /\ Len(logged) = 1
    /\ pc = "print_menu"

\* C8 as stated: for any input the reported count is the number of
\* case-insensitive whole-word occurrences of the input in the sample
\* sentence, and nothing is fetched.
C8_CountsWholeWords ==
    Selected({10}) =>
        /\ Len(Output) = 2
        /\ Output[2] = FoundLine(WholeWordOccurrences(Head(env.typed), sample_text), Head(env.typed))
        /\ requests = <<>>

\* C8 amended: for any input that begins and ends with a word character the
\* reported count is the number of case-insensitive whole-word occurrences
\* of the input in the sample sentence ("John Doe" in any case 1, "Jane" 0);
\* for other inputs it is the number of matches of \b input \b (a blank 9,
\* the empty input 20, "content." 0); nothing is fetched.
C8_CountsWordEndedNames ==
    Selected({10}) =>
        LET name == Head(env.typed)
        IN /\ Len(Output) = 2
           /\ Output[1] = "Searching for patterns matching real name: " \o name
           /\ WordEnded(name) => Output[2] = FoundLine(WholeWordOccurrences(name, sample_text), name)
           /\ name \in {"John Doe", "john doe", "JOHN DOE"} => Output[2] = FoundLine(1, name)
           /\ name = "Jane" => Output[2] = FoundLine(0, name)
           /\ name = " " => Output[2] = FoundLine(9, name)
           /\ name = "" => Output[2] = FoundLine(20, name)
           /\ name = "content." => Output[2] = FoundLine(0, name)
           /\ requests = <<>>
           /\ pc = "print_menu"

C8_Witness ==
    /\ Selected({10})
    /\ env.typed = << "john doe" >>
    /\ Output[2] = "Found 1 matches for name john doe in sample text."

\* C9: for every selection s in 1..22 the loop invokes, exactly once and
\* before it is back at its top, the procedure that print_menu's table
\* binds to the label printed at index s.
C9_MenuMatchesDispatch ==
    \A s \in 1..22 :
        Selected({s}) =>
            /\ console[s + 1] = ToString(s) \o ". " \o menu_options[s].label
            /\ invoked = << menu_options[s].procedure >>

C9_Witness ==
    /\ Selected({17})
    /\ console[18] = "17. Reverse Whois Lookup"
    /\ invoked = << "run_reverse_whois" >>
    /\ Output = << "Performing Reverse Whois lookup for name: alice", "Reverse Whois information for alice." >>

\* C10: the invalid-input message is printed only when the menu line itself
\* was no integer; nothing that happens inside an invoked procedure prints it.
C10_InvalidInputOnlyForMenuLine ==
    (\E i \in 1..Len(console) : console[i] = InvalidInputMessage) => (~choice.ok /\ invoked = <<>>)

====
